---- MODULE Spec2Model ----
(***************************************************************************)
(* Model of TrunAtom::read (symphonia-format-isomp4/src/atoms/trun.rs):    *)
(* the decoder of one ISO-BMFF track fragment run atom.                    *)
(*                                                                         *)
(* Number representation.  TLC integers are 32-bit signed, so the          *)
(* program's unsigned integers are kept as big-endian tuples of 16-bit     *)
(* limbs: a u32 is <<hi, lo>>, a u64 is <<l3, l2, l1, l0>>.  An i32 and    *)
(* the 24-bit flags fit and are plain integers.  The byte stream is read   *)
(* four bytes at a time; a group of four bytes is <<b0, b1, b2, b3>>.      *)
(* An Option<T> is a sequence of length 0 (None) or 1 (Some).              *)
(***************************************************************************)
EXTENDS Integers, Sequences, FiniteSets

\* ---------------------------------------------------------------- bounds

\* The stream holds at most MaxWords 4-byte groups after the extended header.
MaxWords == 7

\* Small sample counts offered by the stream (besides 0xFFFFFFFF).
MaxCount == 2

\* ------------------------------------------------------- program constants

DATA_OFFSET_PRESENT == 1
FIRST_SAMPLE_FLAGS_PRESENT == 4
SAMPLE_DURATION_PRESENT == 256
SAMPLE_SIZE_PRESENT == 512
SAMPLE_FLAGS_PRESENT == 1024
SAMPLE_COMPOSITION_TIME_OFFSETS_PRESENT == 2048

\* ------------------------------------------------------------- arithmetic

Limb == 256 * 256

RECURSIVE BitAnd(_, _)
\* a & b on naturals.
BitAnd(a, b) ==
    IF a = 0 \/ b = 0 THEN 0
    ELSE (IF a % 2 = 1 /\ b % 2 = 1 THEN 1 ELSE 0) + 2 * BitAnd(a \div 2, b \div 2)

\* ByteStream::read_be_u32 applied to four bytes: the first byte is the most
\* significant.
BeU32(b) == <<b[1] * 256 + b[2], b[3] * 256 + b[4]>>

\* The 24-bit big-endian flags of the extended header (bytes 2..4 of it).
BeU24(b) == b[2] * 65536 + b[3] * 256 + b[4]

\* bits::sign_extend_leq32_to_i32(value, 32): the two's-complement reading.
SignExtend32(u) == IF u[1] >= 32768 THEN (u[1] - Limb) * Limb + u[2] ELSE u[1] * Limb + u[2]

\* u64::from(u32).
U64From(u) == <<0, 0, u[1], u[2]>>

\* Variant of U64Add: the totals kept in 32 bits.
U64AddWrap32(a, b) ==
    LET s0 == a[4] + b[4]
        s1 == a[3] + b[3] + s0 \div Limb
    IN  <<0, 0, s1 % Limb, s0 % Limb>>

\* a + b on u64 (the sum is taken modulo 2^64).
U64Add(a, b) ==
    LET s0 == a[4] + b[4]
        s1 == a[3] + b[3] + s0 \div Limb
        s2 == a[2] + b[2] + s1 \div Limb
        s3 == a[1] + b[1] + s2 \div Limb
    IN  <<s3 % Limb, s2 % Limb, s1 % Limb, s0 % Limb>>

\* Variant of InRange: the inclusive range `0..=sample_count`.
InRangeInclusive(n, c) == (n \div Limb < c[1]) \/ (n \div Limb = c[1] /\ n % Limb <= c[2])

\* n < c for a small natural n and a u32 c (the range test of `0..sample_count`).
InRange(n, c) == (n \div Limb < c[1]) \/ (n \div Limb = c[1] /\ n % Limb < c[2])

None == <<>>
Some(v) == <<v>>
IsSome(o) == Len(o) = 1

\* ----------------------------------------------------------------- inputs

AllOnes == <<255, 255, 255, 255>>

\* Extended headers the stream may hold: version, then the 24-bit flags.
Versions == {0, 1}
ExtraWords == {<<v, 0, hi, lo>> : v \in Versions, hi \in 0..15, lo \in {0, 1, 4, 5}}

CountWords == {<<0, 0, 0, k>> : k \in 0..MaxCount} \cup {AllOnes}
OffsetWords == {<<0, 0, 0, 16>>, <<128, 0, 0, 0>>, AllOnes}
FirstFlagsWords == {<<2, 0, 0, 0>>}
DurationWords == {<<0, 0, 0, 100>>, AllOnes}
SizeWords == {<<0, 0, 3, 232>>, <<0, 0, 7, 208>>}
SampleFlagsWords == {<<0, 1, 0, 0>>, <<2, 0, 0, 0>>}
CtoWords == {<<0, 0, 0, 0>>, <<255, 255, 255, 246>>}

\* Declared payload lengths of the atom header handed to read.
DataLens == {12, 40}

\* ------------------------------------------------------------------ state

VARIABLES
    pc,                     \* position in TrunAtom::read
    header,                 \* the AtomHeader argument
    pos,                    \* bytes the reader has been advanced by
    stream,                 \* 4-byte groups read after the extended header
    short_read,             \* a read found fewer than 4 bytes left
    flags,
    sample_count,
    data_offset,
    first_sample_flags,
    sample_duration,
    sample_size,
    sample_flags,
    total_sample_size,
    total_sample_duration,
    i,                      \* iterations of the sample loop completed
    warnings,               \* number of warn! records emitted
    outcome,                \* "running", "Ok", "IoError", "DecodeError", "Panic"
    atom                    \* the returned TrunAtom, as an Option

locals == <<flags, sample_count, data_offset, first_sample_flags, sample_duration,
            sample_size, sample_flags, total_sample_size, total_sample_duration, i>>

vars == <<pc, header, pos, stream, short_read, locals, warnings, outcome, atom>>

U64Zero == <<0, 0, 0, 0>>

Init ==
    /\ pc = "read_extra"
    /\ header \in [data_len : DataLens]
    /\ pos = 0
    /\ stream = <<>>
    /\ short_read = FALSE
    /\ flags = 0
    /\ sample_count = <<0, 0>>
    /\ data_offset = None
    /\ first_sample_flags = None
    /\ sample_duration = <<>>
    /\ sample_size = <<>>
    /\ sample_flags = <<>>
    /\ total_sample_size = U64Zero
    /\ total_sample_duration = U64Zero
    /\ i = 0
    /\ warnings = 0
    /\ outcome = "running"
    /\ atom = None

\* ----------------------------------------------------------------- reader

\* The reader has four more bytes.
CanRead == pos + 4 <= 4 + 4 * MaxWords

\* A successful read_be_u32 of the group w.
ReadWord(w) ==
    /\ CanRead
    /\ pos' = pos + 4
    /\ stream' = Append(stream, w)

\* A read that hits the end of the stream: `?` returns the I/O error.
ReadFails ==
    /\ short_read' = TRUE
    /\ outcome' = "IoError"
    /\ pc' = "done"
    /\ UNCHANGED <<header, pos, stream, locals, warnings, atom>>

\* Number of 4-byte fields in one sample row.
RowFields(f) ==
    (IF BitAnd(f, SAMPLE_DURATION_PRESENT) # 0 THEN 1 ELSE 0)
    + (IF BitAnd(f, SAMPLE_SIZE_PRESENT) # 0 THEN 1 ELSE 0)
    + (IF BitAnd(f, SAMPLE_FLAGS_PRESENT) # 0 THEN 1 ELSE 0)
    + (IF BitAnd(f, SAMPLE_COMPOSITION_TIME_OFFSETS_PRESENT) # 0 THEN 1 ELSE 0)

\* ---------------------------------------------------------------- actions

\* let (_, flags) = AtomHeader::read_extra(reader)?;
ReadExtra ==
    /\ pc = "read_extra"
    /\ \/ /\ \E w \in ExtraWords :
                /\ CanRead
                /\ pos' = pos + 4
                /\ flags' = BeU24(w)
          /\ pc' = "sample_count"
          /\ UNCHANGED <<header, stream, short_read, sample_count, data_offset,
                         first_sample_flags, sample_duration, sample_size, sample_flags,
                         total_sample_size, total_sample_duration, i, warnings, outcome, atom>>
       \/ ReadFails

\* let sample_count = reader.read_be_u32()?;
\* A run of 2^32-1 rows of no fields makes 2^32-1 empty iterations; the model
\* leaves that input out.
ReadSampleCount ==
    /\ pc = "sample_count"
    /\ \/ /\ \E w \in CountWords :
                /\ RowFields(flags) = 0 => w # AllOnes
                /\ ReadWord(w)
                /\ sample_count' = BeU32(w)
          /\ pc' = "data_offset"
          /\ UNCHANGED <<header, short_read, flags, data_offset,
                         first_sample_flags, sample_duration, sample_size, sample_flags,
                         total_sample_size, total_sample_duration, i, warnings, outcome, atom>>
       \/ ReadFails

\* Variant of ReadDataOffset: the match tests the first-sample-flags bit.
ReadDataOffsetWrongBit ==
    /\ pc = "data_offset"
    /\ IF BitAnd(flags, FIRST_SAMPLE_FLAGS_PRESENT) = 0
       THEN /\ data_offset' = None
            /\ pc' = "first_sample_flags"
            /\ UNCHANGED <<header, pos, stream, short_read, flags, sample_count,
                           first_sample_flags, sample_duration, sample_size, sample_flags,
                           total_sample_size, total_sample_duration, i, warnings, outcome, atom>>
       ELSE \/ /\ \E w \in OffsetWords :
                     /\ ReadWord(w)
                     /\ data_offset' = Some(SignExtend32(BeU32(w)))
               /\ pc' = "first_sample_flags"
               /\ UNCHANGED <<header, short_read, flags, sample_count,
                              first_sample_flags, sample_duration, sample_size, sample_flags,
                              total_sample_size, total_sample_duration, i, warnings, outcome, atom>>
            \/ ReadFails

\* let data_offset = match flags & DATA_OFFSET_PRESENT { 0 => None, _ => Some(..) };
ReadDataOffset ==
    /\ pc = "data_offset"
    /\ IF BitAnd(flags, DATA_OFFSET_PRESENT) = 0
       THEN /\ data_offset' = None
            /\ pc' = "first_sample_flags"
            /\ UNCHANGED <<header, pos, stream, short_read, flags, sample_count,
                           first_sample_flags, sample_duration, sample_size, sample_flags,
                           total_sample_size, total_sample_duration, i, warnings, outcome, atom>>
       ELSE \/ /\ \E w \in OffsetWords :
                     /\ ReadWord(w)
                     /\ data_offset' = Some(SignExtend32(BeU32(w)))
               /\ pc' = "first_sample_flags"
               /\ UNCHANGED <<header, short_read, flags, sample_count,
                              first_sample_flags, sample_duration, sample_size, sample_flags,
                              total_sample_size, total_sample_duration, i, warnings, outcome, atom>>
            \/ ReadFails

\* let first_sample_flags = match flags & FIRST_SAMPLE_FLAGS_PRESENT { .. };
ReadFirstSampleFlags ==
    /\ pc = "first_sample_flags"
    /\ IF BitAnd(flags, FIRST_SAMPLE_FLAGS_PRESENT) = 0
       THEN /\ first_sample_flags' = None
            /\ pc' = "todo_check"
            /\ UNCHANGED <<header, pos, stream, short_read, flags, sample_count,
                           data_offset, sample_duration, sample_size, sample_flags,
                           total_sample_size, total_sample_duration, i, warnings, outcome, atom>>
       ELSE \/ /\ \E w \in FirstFlagsWords :
                     /\ ReadWord(w)
                     /\ first_sample_flags' = Some(BeU32(w))
               /\ pc' = "todo_check"
               /\ UNCHANGED <<header, short_read, flags, sample_count,
                              data_offset, sample_duration, sample_size, sample_flags,
                              total_sample_size, total_sample_duration, i, warnings, outcome, atom>>
            \/ ReadFails

\* if first_sample_flags.is_some() { todo!(..) }: todo! panics.
TodoCheck ==
    /\ pc = "todo_check"
    /\ IF IsSome(first_sample_flags)
       THEN /\ outcome' = "Panic"
            /\ pc' = "done"
       ELSE /\ pc' = "conflict_check"
            /\ UNCHANGED outcome
    /\ UNCHANGED <<header, pos, stream, short_read, locals, warnings, atom>>

\* if first_sample_flags.is_some() && (flags & SAMPLE_FLAGS_PRESENT != 0) {
\*     return decode_error(..) }
ConflictCheck ==
    /\ pc = "conflict_check"
    /\ IF IsSome(first_sample_flags) /\ BitAnd(flags, SAMPLE_FLAGS_PRESENT) # 0
       THEN /\ outcome' = "DecodeError"
            /\ pc' = "done"
       ELSE /\ pc' = "init_locals"
            /\ UNCHANGED outcome
    /\ UNCHANGED <<header, pos, stream, short_read, locals, warnings, atom>>

\* let mut sample_duration = Vec::new(); .. let mut total_sample_duration = 0;
InitLocals ==
    /\ pc = "init_locals"
    /\ sample_duration' = <<>>
    /\ sample_size' = <<>>
    /\ sample_flags' = <<>>
    /\ total_sample_size' = U64Zero
    /\ total_sample_duration' = U64Zero
    /\ i' = 0
    /\ pc' = "loop"
    /\ UNCHANGED <<header, pos, stream, short_read, flags, sample_count, data_offset,
                   first_sample_flags, warnings, outcome, atom>>

\* for _ in 0..sample_count { .. }: enter the next iteration or leave the loop.
LoopHead ==
    /\ pc = "loop"
    /\ pc' = IF InRange(i, sample_count) THEN "duration" ELSE "warn"
    /\ UNCHANGED <<header, pos, stream, short_read, locals, warnings, outcome, atom>>

\* if (flags & SAMPLE_DURATION_PRESENT) != 0 { read; total += ; push }
ReadSampleDuration ==
    /\ pc = "duration"
    /\ IF BitAnd(flags, SAMPLE_DURATION_PRESENT) # 0
       THEN \/ /\ \E w \in DurationWords :
                     /\ ReadWord(w)
                     /\ total_sample_duration' = U64Add(total_sample_duration, U64From(BeU32(w)))
                     /\ sample_duration' = Append(sample_duration, BeU32(w))
               /\ pc' = "size"
               /\ UNCHANGED <<header, short_read, flags, sample_count, data_offset,
                              first_sample_flags, sample_size, sample_flags,
                              total_sample_size, i, warnings, outcome, atom>>
            \/ ReadFails
       ELSE /\ pc' = "size"
            /\ UNCHANGED <<header, pos, stream, short_read, locals, warnings, outcome, atom>>

\* Variant of ReadSampleSize: a short read is swallowed and the loop goes on.
ReadSampleSizeLenient ==
    /\ pc = "size"
    /\ IF BitAnd(flags, SAMPLE_SIZE_PRESENT) # 0
       THEN \/ /\ \E w \in SizeWords :
                     /\ ReadWord(w)
                     /\ total_sample_size' = U64Add(total_sample_size, U64From(BeU32(w)))
                     /\ sample_size' = Append(sample_size, BeU32(w))
               /\ pc' = "flags"
               /\ UNCHANGED <<header, short_read, flags, sample_count, data_offset,
                              first_sample_flags, sample_duration, sample_flags,
                              total_sample_duration, i, warnings, outcome, atom>>
            \/ /\ short_read' = TRUE
               /\ sample_size' = Append(sample_size, <<0, 0>>)
               /\ pc' = "flags"
               /\ UNCHANGED <<header, pos, stream, flags, sample_count, data_offset,
                              first_sample_flags, sample_duration, sample_flags,
                              total_sample_size, total_sample_duration, i, warnings,
                              outcome, atom>>
       ELSE /\ pc' = "flags"
            /\ UNCHANGED <<header, pos, stream, short_read, locals, warnings, outcome, atom>>

\* if (flags & SAMPLE_SIZE_PRESENT) != 0 { read; total += ; push }
ReadSampleSize ==
    /\ pc = "size"
    /\ IF BitAnd(flags, SAMPLE_SIZE_PRESENT) # 0
       THEN \/ /\ \E w \in SizeWords :
                     /\ ReadWord(w)
                     /\ total_sample_size' = U64Add(total_sample_size, U64From(BeU32(w)))
                     /\ sample_size' = Append(sample_size, BeU32(w))
               /\ pc' = "flags"
               /\ UNCHANGED <<header, short_read, flags, sample_count, data_offset,
                              first_sample_flags, sample_duration, sample_flags,
                              total_sample_duration, i, warnings, outcome, atom>>
            \/ ReadFails
       ELSE /\ pc' = "flags"
            /\ UNCHANGED <<header, pos, stream, short_read, locals, warnings, outcome, atom>>

\* Variant of ReadSampleFlags: the test is on the sample-size bit.
ReadSampleFlagsSizeBit ==
    /\ pc = "flags"
    /\ IF BitAnd(flags, SAMPLE_SIZE_PRESENT) # 0
       THEN \/ /\ \E w \in SampleFlagsWords :
                     /\ ReadWord(w)
                     /\ sample_flags' = Append(sample_flags, BeU32(w))
               /\ pc' = "cto"
               /\ UNCHANGED <<header, short_read, flags, sample_count, data_offset,
                              first_sample_flags, sample_duration, sample_size,
                              total_sample_size, total_sample_duration, i, warnings,
                              outcome, atom>>
            \/ ReadFails
       ELSE /\ pc' = "cto"
            /\ UNCHANGED <<header, pos, stream, short_read, locals, warnings, outcome, atom>>

\* if (flags & SAMPLE_FLAGS_PRESENT) != 0 { sample_flags.push(read) }
ReadSampleFlags ==
    /\ pc = "flags"
    /\ IF BitAnd(flags, SAMPLE_FLAGS_PRESENT) # 0
       THEN \/ /\ \E w \in SampleFlagsWords :
                     /\ ReadWord(w)
                     /\ sample_flags' = Append(sample_flags, BeU32(w))
               /\ pc' = "cto"
               /\ UNCHANGED <<header, short_read, flags, sample_count, data_offset,
                              first_sample_flags, sample_duration, sample_size,
                              total_sample_size, total_sample_duration, i, warnings,
                              outcome, atom>>
            \/ ReadFails
       ELSE /\ pc' = "cto"
            /\ UNCHANGED <<header, pos, stream, short_read, locals, warnings, outcome, atom>>

\* Variant of SkipCompositionTimeOffset: the offset is not read.
SkipCompositionTimeOffsetNoRead ==
    /\ pc = "cto"
    /\ pc' = "loop"
    /\ i' = i + 1
    /\ UNCHANGED <<header, pos, stream, short_read, flags, sample_count, data_offset,
                   first_sample_flags, sample_duration, sample_size, sample_flags,
                   total_sample_size, total_sample_duration, warnings, outcome, atom>>

\* if (flags & SAMPLE_COMPOSITION_TIME_OFFSETS_PRESENT) != 0 { let _ = read }
\* and the end of the loop body.
SkipCompositionTimeOffset ==
    /\ pc = "cto"
    /\ IF BitAnd(flags, SAMPLE_COMPOSITION_TIME_OFFSETS_PRESENT) # 0
       THEN \/ /\ \E w \in CtoWords : ReadWord(w)
               /\ pc' = "loop"
               /\ i' = i + 1
               /\ UNCHANGED <<header, short_read, flags, sample_count, data_offset,
                              first_sample_flags, sample_duration, sample_size, sample_flags,
                              total_sample_size, total_sample_duration, warnings,
                              outcome, atom>>
            \/ ReadFails
       ELSE /\ pc' = "loop"
            /\ i' = i + 1
            /\ UNCHANGED <<header, pos, stream, short_read, flags, sample_count, data_offset,
                           first_sample_flags, sample_duration, sample_size, sample_flags,
                           total_sample_size, total_sample_duration, warnings, outcome, atom>>

\* Variant of WarnIgnored: one warning for every sample of the run.
WarnIgnoredPerSample ==
    /\ pc = "warn"
    /\ warnings' = IF BitAnd(flags, SAMPLE_COMPOSITION_TIME_OFFSETS_PRESENT) # 0
                   THEN warnings + i ELSE warnings
    /\ pc' = "return"
    /\ UNCHANGED <<header, pos, stream, short_read, locals, outcome, atom>>

\* if (flags & ..OFFSETS_PRESENT) != 0 { warn!("ignoring sample composition time offsets.") }
WarnIgnored ==
    /\ pc = "warn"
    /\ warnings' = IF BitAnd(flags, SAMPLE_COMPOSITION_TIME_OFFSETS_PRESENT) # 0
                   THEN warnings + 1 ELSE warnings
    /\ pc' = "return"
    /\ UNCHANGED <<header, pos, stream, short_read, locals, outcome, atom>>

\* Ok(TrunAtom { header, flags, data_offset, .. })
ReturnOk ==
    /\ pc = "return"
    /\ atom' = Some([header |-> header,
                     flags |-> flags,
                     data_offset |-> data_offset,
                     sample_count |-> sample_count,
                     first_sample_flags |-> first_sample_flags,
                     sample_duration |-> sample_duration,
                     sample_size |-> sample_size,
                     sample_flags |-> sample_flags,
                     total_sample_size |-> total_sample_size,
                     total_sample_duration |-> total_sample_duration])
    /\ outcome' = "Ok"
    /\ pc' = "done"
    /\ UNCHANGED <<header, pos, stream, short_read, locals, warnings>>

Next ==
    \/ ReadExtra
    \/ ReadSampleCount
    \/ ReadDataOffset
    \/ ReadFirstSampleFlags
    \/ TodoCheck
    \/ ConflictCheck
    \/ InitLocals
    \/ LoopHead
    \/ ReadSampleDuration
    \/ ReadSampleSize
    \/ ReadSampleFlags
    \/ SkipCompositionTimeOffset
    \/ WarnIgnored
    \/ ReturnOk

Spec == Init /\ [][Next]_vars

\* ------------------------------------------------------------- properties

HasBit(f, b) == BitAnd(f, b) # 0

Bit01(f, b) == IF HasBit(f, b) THEN 1 ELSE 0

Finished == pc = "done"

\* A length as a u32, to compare with sample_count.
U32Of(n) == <<n \div Limb, n % Limb>>

\* The sample count as a plain number, or -1 when it is too large to be one.
SmallCount(c) == IF c[1] = 0 /\ c[2] < 4096 THEN c[2] ELSE -1

\* The four bytes of a group read as a two's-complement 32-bit number.
TwosComplement(b) ==
    (IF b[1] >= 128 THEN b[1] - 256 ELSE b[1]) * 16777216 + b[2] * 65536 + b[3] * 256 + b[4]

\* a + u without wrapping: a has five limbs, u is a u32.
WideAdd(a, u) ==
    LET s0 == a[5] + u[2]
        s1 == a[4] + u[1] + s0 \div Limb
        s2 == a[3] + s1 \div Limb
        s3 == a[2] + s2 \div Limb
        s4 == a[1] + s3 \div Limb
    IN  <<s4, s3 % Limb, s2 % Limb, s1 % Limb, s0 % Limb>>

RECURSIVE WideSum(_)
\* The arithmetic sum of a sequence of u32, in five limbs.
WideSum(q) ==
    IF q = <<>> THEN <<0, 0, 0, 0, 0>>
    ELSE WideAdd(WideSum(SubSeq(q, 1, Len(q) - 1)), q[Len(q)])

\* C1: when the first-sample-flags bit is set, the per-sample-flags bit is
\* clear and the stream supplied every header field, read ends with the
\* recoverable Unsupported error: never a panic, never a TrunAtom.
C1_UnsupportedIsAnError ==
    (/\ Finished
     /\ ~short_read
     /\ HasBit(flags, FIRST_SAMPLE_FLAGS_PRESENT)
     /\ ~HasBit(flags, SAMPLE_FLAGS_PRESENT))
    => (outcome = "Unsupported" /\ atom = None)

\* C2: when both the first-sample-flags bit and the per-sample-flags bit are
\* set (and the header fields could be read), read ends with the decode error
\* of the conflict check.
C2_ConflictIsDecodeError ==
    (/\ Finished
     /\ ~short_read
     /\ HasBit(flags, FIRST_SAMPLE_FLAGS_PRESENT)
     /\ HasBit(flags, SAMPLE_FLAGS_PRESENT))
    => outcome = "DecodeError"

\* The bytes the layout needs are more than the header declares.
ExceedsDeclared ==
    /\ RowFields(flags) > 0
    /\ \/ SmallCount(sample_count) = -1
       \/ 8 + 4 * Bit01(flags, DATA_OFFSET_PRESENT)
            + 4 * Bit01(flags, FIRST_SAMPLE_FLAGS_PRESENT)
            + 4 * SmallCount(sample_count) * RowFields(flags) > header.data_len

\* C3: once a sample_count that needs more bytes than the atom declares has
\* been read, no iteration of the sample loop starts and nothing is pushed.
C3_CountValidatedBeforeLoop ==
    (pc \notin {"read_extra", "sample_count"} /\ ExceedsDeclared)
    => /\ pc \notin {"duration", "size", "flags", "cto"}
       /\ i = 0
       /\ Len(sample_duration) = 0 /\ Len(sample_size) = 0 /\ Len(sample_flags) = 0

\* C4: in a returned TrunAtom each of sample_duration, sample_size and
\* sample_flags has sample_count elements when its bit is set in flags and
\* none when it is clear.
C4_Lengths ==
    outcome = "Ok" =>
        LET a == atom[1]
            Want(b) == IF HasBit(a.flags, b) THEN a.sample_count ELSE <<0, 0>>
        IN  /\ U32Of(Len(a.sample_duration)) = Want(SAMPLE_DURATION_PRESENT)
            /\ U32Of(Len(a.sample_size)) = Want(SAMPLE_SIZE_PRESENT)
            /\ U32Of(Len(a.sample_flags)) = Want(SAMPLE_FLAGS_PRESENT)

C4_Witness ==
    /\ outcome = "Ok"
    /\ atom[1].sample_count = <<0, 2>>
    /\ Len(atom[1].sample_duration) = 2
    /\ Len(atom[1].sample_flags) = 2
    /\ ~HasBit(atom[1].flags, SAMPLE_SIZE_PRESENT)
    /\ Len(atom[1].sample_size) = 0

\* C5: in a returned TrunAtom total_sample_duration and total_sample_size are
\* the arithmetic (unwrapped) sums of sample_duration and sample_size.
C5_Totals ==
    outcome = "Ok" =>
        LET a == atom[1]
        IN  /\ <<0>> \o a.total_sample_duration = WideSum(a.sample_duration)
            /\ <<0>> \o a.total_sample_size = WideSum(a.sample_size)

\* Two durations of 0xFFFFFFFF: the sum 0x1FFFFFFFE does not fit 32 bits.
C5_Witness ==
    /\ outcome = "Ok"
    /\ atom[1].sample_duration = <<<<65535, 65535>>, <<65535, 65535>>>>
    /\ atom[1].total_sample_duration = <<0, 1, 65535, 65534>>
    /\ atom[1].total_sample_size = <<0, 0, 0, 3000>>

\* C6: a read that finds the stream short ends the call with the I/O error
\* and no TrunAtom; a TrunAtom exists only after a call without a short read.
C6_NoPartialRecord ==
    /\ short_read => (Finished /\ outcome = "IoError" /\ atom = None)
    /\ outcome # "Ok" => atom = None
    /\ outcome = "Ok" => (~short_read /\ IsSome(atom))

\* The stream ends after the first row's duration although a size is due.
C6_Witness ==
    /\ short_read
    /\ outcome = "IoError"
    /\ HasBit(flags, SAMPLE_SIZE_PRESENT)
    /\ Len(sample_duration) = 1
    /\ Len(sample_size) = 0
    /\ i = 0

\* C7: in a returned TrunAtom data_offset is Some exactly when the data-offset
\* bit is set, and then holds the group read right after sample_count taken
\* as a two's-complement number (0xFFFFFFFF is -1, 0x00000010 is 16).
C7_DataOffset ==
    outcome = "Ok" =>
        LET a == atom[1]
        IN  /\ IsSome(a.data_offset) <=> HasBit(a.flags, DATA_OFFSET_PRESENT)
            /\ IsSome(a.data_offset) =>
                  /\ a.data_offset[1] = TwosComplement(stream[2])
                  /\ stream[2] = AllOnes => a.data_offset[1] = -1
                  /\ stream[2] = <<0, 0, 0, 16>> => a.data_offset[1] = 16

C7_Witness ==
    /\ outcome = "Ok"
    /\ Len(stream) >= 2
    /\ stream[2] = AllOnes
    /\ atom[1].data_offset = Some(-1)
    /\ Len(atom[1].sample_size) = 1

\* C8: a successful call advances the reader, beyond the extended header, by
\* 4 + 4*[data offset] + 4*[first sample flags] + 4*sample_count*(fields per
\* row) bytes.
C8_BytesConsumed ==
    outcome = "Ok" =>
        pos - 4 = 4 + 4 * Bit01(flags, DATA_OFFSET_PRESENT)
                    + 4 * Bit01(flags, FIRST_SAMPLE_FLAGS_PRESENT)
                    + (IF RowFields(flags) = 0 THEN 0
                       ELSE 4 * SmallCount(sample_count) * RowFields(flags))

\* sample_count = 0 with every per-sample bit set: only the header is read.
C8_Witness ==
    /\ outcome = "Ok"
    /\ sample_count = <<0, 0>>
    /\ RowFields(flags) = 4
    /\ HasBit(flags, DATA_OFFSET_PRESENT)
    /\ pos = 12

\* Index in stream of the first group of row k (rows count from 0).
RowBase(f, k) == 1 + Bit01(f, DATA_OFFSET_PRESENT) + Bit01(f, FIRST_SAMPLE_FLAGS_PRESENT)
                 + k * RowFields(f)

\* C9: rows are read in order and, within a row, duration, size, flags and
\* composition time offset in that order, absent fields taking no bytes; the
\* k-th element of each sequence is the group at that place of row k.
C9_FieldOrder ==
    outcome = "Ok" =>
        LET a == atom[1]
            f == a.flags
            d == Bit01(f, SAMPLE_DURATION_PRESENT)
            z == Bit01(f, SAMPLE_SIZE_PRESENT)
        IN  /\ \A k \in 1..Len(a.sample_duration) :
                  a.sample_duration[k] = BeU32(stream[RowBase(f, k - 1) + 1])
            /\ \A k \in 1..Len(a.sample_size) :
                  a.sample_size[k] = BeU32(stream[RowBase(f, k - 1) + d + 1])
            /\ \A k \in 1..Len(a.sample_flags) :
                  a.sample_flags[k] = BeU32(stream[RowBase(f, k - 1) + d + z + 1])
            /\ (f = 769 /\ stream = <<<<0, 0, 0, 2>>, <<0, 0, 0, 16>>,
                                      <<0, 0, 0, 100>>, <<0, 0, 3, 232>>,
                                      <<0, 0, 0, 100>>, <<0, 0, 7, 208>>>>)
               => /\ a.data_offset = Some(16)
                  /\ a.sample_duration = <<<<0, 100>>, <<0, 100>>>>
                  /\ a.sample_size = <<<<0, 1000>>, <<0, 2000>>>>
                  /\ a.sample_flags = <<>>
                  /\ a.total_sample_duration = <<0, 0, 0, 200>>
                  /\ a.total_sample_size = <<0, 0, 0, 3000>>

\* flags 0x000301, sample_count 2, offset 0x10, rows (100,1000), (100,2000).
C9_Witness ==
    /\ outcome = "Ok"
    /\ flags = 769
    /\ stream = <<<<0, 0, 0, 2>>, <<0, 0, 0, 16>>, <<0, 0, 0, 100>>, <<0, 0, 3, 232>>,
                  <<0, 0, 0, 100>>, <<0, 0, 7, 208>>>>

\* C10: the warning is emitted once, after the loop, when the composition
\* time offset bit is set, and never otherwise (not per sample, not when the
\* bit is clear, not on a failed call); emitting it changes nothing else.
C10_WarnOnce ==
    /\ [](warnings = IF (pc = "return" \/ outcome = "Ok")
                        /\ HasBit(flags, SAMPLE_COMPOSITION_TIME_OFFSETS_PRESENT)
                     THEN 1 ELSE 0)
    /\ [][pc = "warn" => UNCHANGED <<locals, header, pos, stream, outcome, atom>>]_vars

\* Two rows with a composition time offset each, one warning.
C10_Witness ==
    /\ outcome = "Ok"
    /\ HasBit(flags, SAMPLE_COMPOSITION_TIME_OFFSETS_PRESENT)
    /\ sample_count = <<0, 2>>
    /\ Len(stream) = 5
    /\ warnings = 1

====
